---- MODULE Spec2Model ----
(***************************************************************************)
(* Model of backend/src/apiserver/storage/object_store.go: the Minio       *)
(* object store adapter (MinioObjectStore) and its six methods.            *)
(*                                                                         *)
(* Byte strings, paths and YAML scalars are sequences of one-character     *)
(* strings, so that the regular expression of GetFile and path.Join are    *)
(* computed character by character, as the code computes them.             *)
(*                                                                         *)
(* Every method issues at most one call to the injected client, and the    *)
(* adapter holds no mutable state: concurrent callers are modelled as the  *)
(* interleaving of the methods of the callers in Callers, each method      *)
(* atomic at its single client call.                                       *)
(***************************************************************************)
EXTENDS Integers, Sequences, FiniteSets, TLC

VARIABLES
  cfg,      \* the MinioObjectStore struct: minioClient, bucketName, baseFolder, disableMultipart
  ctor,     \* the arguments NewMinioObjectStore was called with
  store,    \* the bucket held by the injected client: key -> stored bytes
  written,  \* per key: what the adapter last stored there successfully, with no later write or delete
  input,    \* the blob or pipeline id a caller holds, where a specification draws it up front
  last      \* the most recently completed method invocation: arguments, client/codec calls, results

vars == <<cfg, ctor, store, written, input, last>>

-----------------------------------------------------------------------------
(* Bounds of the model *)

\* longest prefix a failing stream read may deliver before the error
MaxPartialRead == 1
\* blobs of the round-trip specification are at most this many tokens
MaxTokens == 4
\* the bytes around the embedded artifact are at most this many tokens each
MaxAffix == 2
\* base folders and pipeline ids of the join specification have at most this many characters
MaxPathLen == 3

-----------------------------------------------------------------------------
(* Program constants *)

multipartDefaultSize == -1

ContentType == "application/octet-stream"

\* the literal part of the regular expression `\w+;chunk-signature=\w+`
ChunkSignatureLiteral ==
  <<";", "c", "h", "u", "n", "k", "-", "s", "i", "g", "n", "a", "t", "u", "r", "e", "=">>

\* the character class \w of Go's regexp (RE2 syntax): [0-9A-Za-z_]
WordChars ==
  {"0", "1", "2", "3", "4", "5", "6", "7", "8", "9",
   "A", "B", "C", "D", "E", "F", "G", "H", "I", "J", "K", "L", "M",
   "N", "O", "P", "Q", "R", "S", "T", "U", "V", "W", "X", "Y", "Z",
   "a", "b", "c", "d", "e", "f", "g", "h", "i", "j", "k", "l", "m",
   "n", "o", "p", "q", "r", "s", "t", "u", "v", "w", "x", "y", "z", "_"}

-----------------------------------------------------------------------------
(* Sequences *)

Min(a, b) == IF a < b THEN a ELSE b

Chars(s) == {s[i] : i \in 1..Len(s)}

\* all sequences of at most n elements of S
SeqsUpTo(S, n) == UNION {[1..k -> S] : k \in 0..n}

RECURSIVE Flatten(_)
Flatten(ss) == IF ss = <<>> THEN <<>> ELSE Head(ss) \o Flatten(Tail(ss))

-----------------------------------------------------------------------------
(* regexp.MustCompile(`\w+;chunk-signature=\w+`).ReplaceAllString(s, "") *)

IsWord(ch) == ch \in WordChars

\* the index after the longest run of word characters that starts at i (i itself if none)
RECURSIVE WordRunEnd(_, _)
WordRunEnd(s, i) ==
  IF i <= Len(s) /\ IsWord(s[i]) THEN WordRunEnd(s, i + 1) ELSE i

LiteralAt(s, i) ==
  /\ i + Len(ChunkSignatureLiteral) - 1 <= Len(s)
  /\ SubSeq(s, i, i + Len(ChunkSignatureLiteral) - 1) = ChunkSignatureLiteral

\* faulty variant: the second \w+ is lazy (`\w+?`) and takes one character
MatchEnd_Lazy(s, i) ==
  LET j == WordRunEnd(s, i) IN
  IF j = i \/ ~LiteralAt(s, j) THEN 0
  ELSE LET k == j + Len(ChunkSignatureLiteral) IN
       IF k <= Len(s) /\ IsWord(s[k]) THEN k + 1 ELSE 0

\* The index after the match that starts at i, 0 when no match starts at i.
\* \w+ is greedy; the literal starts with ';', not a word character, so the
\* first \w+ can only end where its run ends, and the second takes its whole run.
MatchEnd(s, i) ==
  LET j == WordRunEnd(s, i) IN
  IF j = i \/ ~LiteralAt(s, j) THEN 0
  ELSE LET k == j + Len(ChunkSignatureLiteral)
           e == WordRunEnd(s, k)
       IN IF e = k THEN 0 ELSE e

\* leftmost, non-overlapping matches from pos on, each replaced by ""
RECURSIVE ReplaceAllFrom(_, _)
ReplaceAllFrom(s, pos) ==
  IF pos > Len(s) THEN <<>>
  ELSE LET e == MatchEnd(s, pos) IN
       IF e > 0 THEN ReplaceAllFrom(s, e)
       ELSE <<s[pos]>> \o ReplaceAllFrom(s, pos + 1)

ReplaceAllString(s) == ReplaceAllFrom(s, 1)

-----------------------------------------------------------------------------
(* path.Join and path.Clean *)

\* the components of p between slashes, empty ones included
RECURSIVE SplitFrom(_, _, _)
SplitFrom(p, i, cur) ==
  IF i > Len(p) THEN <<cur>>
  ELSE IF p[i] = "/" THEN <<cur>> \o SplitFrom(p, i + 1, <<>>)
  ELSE SplitFrom(p, i + 1, Append(cur, p[i]))

Split(p) == SplitFrom(p, 1, <<>>)

DotDot == <<".", ".">>

\* path.Clean's pass over the components: drop "" and ".", let ".." remove the
\* component before it, drop ".." at the root, keep leading ".." otherwise
RECURSIVE CleanComponents(_, _, _)
CleanComponents(cs, acc, rooted) ==
  IF cs = <<>> THEN acc
  ELSE LET c == Head(cs) IN
       IF c = <<>> \/ c = <<".">> THEN CleanComponents(Tail(cs), acc, rooted)
       ELSE IF c = DotDot THEN
         IF acc # <<>> /\ acc[Len(acc)] # DotDot
           THEN CleanComponents(Tail(cs), SubSeq(acc, 1, Len(acc) - 1), rooted)
         ELSE IF rooted THEN CleanComponents(Tail(cs), acc, rooted)
         ELSE CleanComponents(Tail(cs), Append(acc, c), rooted)
       ELSE CleanComponents(Tail(cs), Append(acc, c), rooted)

RECURSIVE JoinComponents(_)
JoinComponents(cs) ==
  IF cs = <<>> THEN <<>>
  ELSE IF Len(cs) = 1 THEN cs[1]
  ELSE cs[1] \o <<"/">> \o JoinComponents(Tail(cs))

Clean(p) ==
  IF p = <<>> THEN <<".">>
  ELSE LET rooted == p[1] = "/"
           body == JoinComponents(CleanComponents(Split(p), <<>>, rooted))
           out == IF rooted THEN <<"/">> \o body ELSE body
       IN IF out = <<>> THEN <<".">> ELSE out

\* path.Join(a, b): empty elements are ignored, the rest joined by "/" and cleaned
PathJoin(a, b) ==
  IF a = <<>> /\ b = <<>> THEN <<>>
  ELSE IF a = <<>> THEN Clean(b)
  ELSE IF b = <<>> THEN Clean(a)
  ELSE Clean(a \o <<"/">> \o b)

-----------------------------------------------------------------------------
(* Errors: util.NewInternalServerError and util.Wrap as the call sites use them *)

NoErr == [kind |-> "nil", message |-> "", path |-> <<>>, cause |-> "", context |-> <<>>]

\* util.NewInternalServerError(err, format, filePath): the kind is the
\* constructor's, the message is the call site's format, and err is kept as the cause
NewInternalServerError(err, message, filePath) ==
  [kind |-> "InternalServerError", message |-> message, path |-> filePath,
   cause |-> err, context |-> <<>>]

\* util.Wrap(err, message): the same error with one more line of context
Wrap(err, message) == [err EXCEPT !.context = <<message>> \o @]

-----------------------------------------------------------------------------
(* The YAML codec (sigs.k8s.io/yaml) on the values of the model: a value is *)
(* a string that YAML writes as a plain scalar, or a value that cannot be   *)
(* marshalled.                                                              *)

\* a value yaml.Marshal rejects (a channel, a function)
Unmarshalable == <<"<chan>">>

\* what the caller's outValue holds before GetFromYamlFile
InitialOut == <<"o", "l", "d">>

Marshal(o) ==
  IF o = Unmarshalable
    THEN [err |-> "unsupported type", bytes |-> <<>>]
    ELSE [err |-> "", bytes |-> o \o <<"\n">>]

Blank(ch) == ch = " " \/ ch = "\n"

RECURSIVE TrimLeft(_)
TrimLeft(s) == IF s # <<>> /\ Blank(Head(s)) THEN TrimLeft(Tail(s)) ELSE s

RECURSIVE TrimRight(_)
TrimRight(s) ==
  IF s # <<>> /\ Blank(s[Len(s)]) THEN TrimRight(SubSeq(s, 1, Len(s) - 1)) ELSE s

\* yaml.Unmarshal(bytes, o): an unclosed flow mapping is malformed; an empty
\* document is null and leaves o as it was; a plain scalar is read without the
\* blanks around it
Unmarshal(bytes, o) ==
  IF "{" \in Chars(bytes) THEN [err |-> "yaml: did not find expected node content", o |-> o]
  ELSE LET t == TrimRight(TrimLeft(bytes)) IN
       IF t = <<>> THEN [err |-> "", o |-> o] ELSE [err |-> "", o |-> t]

-----------------------------------------------------------------------------
(* The injected client (MinioClientInterface) over one bucket: it stores and *)
(* returns bytes as given, and any call may fail.                            *)

NoCall == <<>>

ClientCall(op, bucket, key, data, size, contentType) ==
  [op |-> op, bucket |-> bucket, key |-> key, data |-> data, size |-> size,
   contentType |-> contentType]

CodecCall(op) == ClientCall(op, "", <<>>, <<>>, 0, "")

IsClientCall(call) == call.op \in {"PutObject", "GetObject", "DeleteObject"}

Has(st, key) == key \in DOMAIN st

StorePut(st, key, data) ==
  [k \in DOMAIN st \cup {key} |-> IF k = key THEN data ELSE st[k]]

StoreRemove(st, key) == [k \in DOMAIN st \ {key} |-> st[k]]

\* the ways a put or a delete may end
WriteOutcomes == {[get |-> "ok", read |-> 0], [get |-> "fail", read |-> 0]}

\* The ways a get may end: the call fails; the call succeeds and the stream
\* is read to its end; the call succeeds and reading the stream fails after
\* n bytes (n = 0 also when the object does not exist and the client reports
\* that only on the first read).
GetOutcomes(st, key) ==
  IF Has(st, key)
    THEN {[get |-> "fail", read |-> 0], [get |-> "ok", read |-> Len(st[key])]}
         \cup {[get |-> "ok", read |-> n] : n \in 0..Min(Len(st[key]) - 1, MaxPartialRead)}
    ELSE {[get |-> "fail", read |-> 0], [get |-> "ok", read |-> 0]}

PutObject(st, key, data, outcome) ==
  IF outcome.get = "ok"
    THEN [err |-> "", store |-> StorePut(st, key, data)]
    ELSE [err |-> "Unavailable", store |-> st]

DeleteObject(st, key, outcome) ==
  IF outcome.get = "ok"
    THEN [err |-> "", store |-> StoreRemove(st, key)]
    ELSE [err |-> "Unavailable", store |-> st]

\* read: the bytes the returned stream delivers; complete: it delivered the whole object
GetObject(st, key, outcome) ==
  IF outcome.get = "fail"
    THEN [err |-> IF Has(st, key) THEN "Unavailable" ELSE "NoSuchKey",
          read |-> <<>>, complete |-> FALSE]
    ELSE [err |-> "",
          read |-> IF Has(st, key) THEN SubSeq(st[key], 1, outcome.read) ELSE <<>>,
          complete |-> Has(st, key) /\ outcome.read = Len(st[key])]

-----------------------------------------------------------------------------
(* MinioObjectStore *)

NewMinioObjectStore(minioClient, bucketName, baseFolder, disableMultipart) ==
  [minioClient |-> minioClient, bucketName |-> bucketName,
   baseFolder |-> baseFolder, disableMultipart |-> disableMultipart]

\* faulty variant: string concatenation instead of path.Join
GetPipelineKey_Concat(m, pipelineID) == m.baseFolder \o <<"/">> \o pipelineID

GetPipelineKey(m, pipelineID) == PathJoin(m.baseFolder, pipelineID)

\* faulty variant: the branches on disableMultipart swapped
Parts_Swapped(m, file) == IF m.disableMultipart THEN multipartDefaultSize ELSE Len(file)

\* the size AddFile declares to PutObject
Parts(m, file) == IF m.disableMultipart THEN Len(file) ELSE multipartDefaultSize

\* faulty variant: the base folder joined in front of the caller's filePath
ObjectKey_Joined(m, filePath) == PathJoin(m.baseFolder, filePath)

\* the key a method hands to the client for the caller's filePath
ObjectKey(m, filePath) == filePath

\* faulty variant: a failed put is tried once more
AddFile_Retry(m, st, file, filePath, outcome) ==
  LET key == ObjectKey(m, filePath)
      r == PutObject(st, key, file, outcome)
      call == ClientCall("PutObject", m.bucketName, key, file, Parts(m, file), ContentType)
  IN [trace |-> IF r.err # "" THEN <<call, call>> ELSE <<call>>,
      err |-> IF r.err # ""
                THEN NewInternalServerError(r.err, "Failed to store file", filePath)
                ELSE NoErr,
      store |-> r.store]

AddFile(m, st, file, filePath, outcome) ==
  LET key == ObjectKey(m, filePath)
      r == PutObject(st, key, file, outcome)
  IN [trace |-> <<ClientCall("PutObject", m.bucketName, key, file, Parts(m, file), ContentType)>>,
      err |-> IF r.err # ""
                THEN NewInternalServerError(r.err, "Failed to store file", filePath)
                ELSE NoErr,
      store |-> r.store]

DeleteFile(m, st, filePath, outcome) ==
  LET key == ObjectKey(m, filePath)
      r == DeleteObject(st, key, outcome)
  IN [trace |-> <<ClientCall("DeleteObject", m.bucketName, key, <<>>, 0, "")>>,
      err |-> IF r.err # ""
                THEN NewInternalServerError(r.err, "Failed to delete file", filePath)
                ELSE NoErr,
      store |-> r.store]

\* faulty variant: the signature is removed whatever disableMultipart says
RemoveSignature_Always(m, bytes) == ReplaceAllString(bytes)

\* "Remove single part signature if exists"
RemoveSignature(m, bytes) ==
  IF m.disableMultipart THEN ReplaceAllString(bytes) ELSE bytes

\* buf.ReadFrom(reader) keeps what the stream delivered; its error is not looked at
GetFile(m, st, filePath, outcome) ==
  LET key == ObjectKey(m, filePath)
      r == GetObject(st, key, outcome)
      call == ClientCall("GetObject", m.bucketName, key, <<>>, 0, "")
  IN IF r.err # ""
       THEN [trace |-> <<call>>,
             err |-> NewInternalServerError(r.err, "Failed to get file", filePath),
             bytes |-> <<>>, complete |-> FALSE]
       ELSE [trace |-> <<call>>, err |-> NoErr,
             bytes |-> RemoveSignature(m, r.read), complete |-> r.complete]

\* faulty variant: the marshal error is returned only after the file was added
AddAsYamlFile_PutAnyway(m, st, o, filePath, outcome) ==
  LET y == Marshal(o)
      a == AddFile(m, st, y.bytes, filePath, outcome)
  IN [trace |-> <<CodecCall("Marshal")>> \o a.trace,
      err |-> IF y.err # ""
                THEN NewInternalServerError(y.err, "Failed to marshal file", filePath)
                ELSE IF a.err # NoErr THEN Wrap(a.err, "Failed to add a yaml file")
                ELSE NoErr,
      store |-> a.store]

AddAsYamlFile(m, st, o, filePath, outcome) ==
  LET y == Marshal(o) IN
  IF y.err # ""
    THEN [trace |-> <<CodecCall("Marshal")>>,
          err |-> NewInternalServerError(y.err, "Failed to marshal file", filePath),
          store |-> st]
    ELSE LET a == AddFile(m, st, y.bytes, filePath, outcome) IN
         [trace |-> <<CodecCall("Marshal")>> \o a.trace,
          err |-> IF a.err # NoErr THEN Wrap(a.err, "Failed to add a yaml file") ELSE NoErr,
          store |-> a.store]

GetFromYamlFile(m, st, o, filePath, outcome) ==
  LET g == GetFile(m, st, filePath, outcome) IN
  IF g.err # NoErr
    THEN [trace |-> g.trace, err |-> Wrap(g.err, "Failed to read from a yaml file"),
          o |-> o, bytes |-> g.bytes, complete |-> g.complete]
    ELSE LET u == Unmarshal(g.bytes, o) IN
         [trace |-> g.trace \o <<CodecCall("Unmarshal")>>,
          err |-> IF u.err # ""
                    THEN NewInternalServerError(u.err, "Failed to unmarshal file", filePath)
                    ELSE NoErr,
          o |-> u.o, bytes |-> g.bytes, complete |-> g.complete]

-----------------------------------------------------------------------------
(* The record of a completed invocation *)

NoWrite == [kind |-> "none", file |-> <<>>, value |-> <<>>]

Prior(w, filePath) == IF filePath \in DOMAIN w THEN w[filePath] ELSE NoWrite

Stored(st, key) == IF Has(st, key) THEN st[key] ELSE <<>>

Invocation(c, op, filePath, file, value, outcome, trace, err, out, outRef, complete) ==
  [caller |-> c, op |-> op, filePath |-> filePath, file |-> file, value |-> value,
   outcome |-> outcome,                 \* how the client call ended, if one was made
   trace |-> trace,                     \* the client and codec calls, in order
   err |-> err,                         \* the error returned
   out |-> out,                         \* the bytes (GetFile) or key (GetPipelineKey) returned
   outRef |-> outRef,                   \* the caller's outValue after GetFromYamlFile
   complete |-> complete,               \* the get succeeded and its stream was read to the end
   raw |-> Stored(store, filePath),     \* what the bucket held at filePath before the call
   existed |-> Has(store, filePath),    \* whether the bucket held an object at filePath
   prior |-> Prior(written, filePath)]  \* what the adapter had last stored at filePath

NoOutcome == [get |-> "none", read |-> 0]

NoInvocation ==
  [caller |-> "", op |-> "none", filePath |-> <<>>, file |-> <<>>, value |-> <<>>,
   outcome |-> NoOutcome, trace |-> <<>>, err |-> NoErr, out |-> <<>>, outRef |-> <<>>,
   complete |-> FALSE, raw |-> <<>>, existed |-> FALSE, prior |-> NoWrite]

-----------------------------------------------------------------------------
(* One action per method of ObjectStoreInterface, called by caller c *)

InvokeGetPipelineKey(c, pipelineID) ==
  /\ last' = Invocation(c, "GetPipelineKey", pipelineID, <<>>, <<>>, NoOutcome, <<>>, NoErr,
                        GetPipelineKey(cfg, pipelineID), <<>>, FALSE)
  /\ UNCHANGED <<cfg, ctor, store, written, input>>

\* faulty variant: after a failed upload the adapter falls back to single-part uploads
InvokeAddFile_Fallback(c, file, filePath) ==
  \E outcome \in WriteOutcomes :
    LET r == AddFile(cfg, store, file, filePath, outcome) IN
    /\ store' = r.store
    /\ written' = IF r.err = NoErr
                    THEN StorePut(written, filePath,
                                  [kind |-> "file", file |-> file, value |-> <<>>])
                    ELSE StoreRemove(written, filePath)
    /\ last' = Invocation(c, "AddFile", filePath, file, <<>>, outcome, r.trace, r.err,
                          <<>>, <<>>, FALSE)
    /\ cfg' = IF r.err = NoErr THEN cfg ELSE [cfg EXCEPT !.disableMultipart = TRUE]
    /\ UNCHANGED <<ctor, input>>

InvokeAddFile(c, file, filePath) ==
  \E outcome \in WriteOutcomes :
    LET r == AddFile(cfg, store, file, filePath, outcome) IN
    /\ store' = r.store
    /\ written' = IF r.err = NoErr
                    THEN StorePut(written, filePath,
                                  [kind |-> "file", file |-> file, value |-> <<>>])
                    ELSE StoreRemove(written, filePath)
    /\ last' = Invocation(c, "AddFile", filePath, file, <<>>, outcome, r.trace, r.err,
                          <<>>, <<>>, FALSE)
    /\ UNCHANGED <<cfg, ctor, input>>

InvokeDeleteFile(c, filePath) ==
  \E outcome \in WriteOutcomes :
    LET r == DeleteFile(cfg, store, filePath, outcome) IN
    /\ store' = r.store
    /\ written' = StoreRemove(written, filePath)
    /\ last' = Invocation(c, "DeleteFile", filePath, <<>>, <<>>, outcome, r.trace, r.err,
                          <<>>, <<>>, FALSE)
    /\ UNCHANGED <<cfg, ctor, input>>

InvokeGetFile(c, filePath) ==
  \E outcome \in GetOutcomes(store, ObjectKey(cfg, filePath)) :
    LET r == GetFile(cfg, store, filePath, outcome) IN
    /\ last' = Invocation(c, "GetFile", filePath, <<>>, <<>>, outcome, r.trace, r.err,
                          r.bytes, <<>>, r.complete)
    /\ UNCHANGED <<cfg, ctor, store, written, input>>

InvokeAddAsYamlFile(c, o, filePath) ==
  \E outcome \in WriteOutcomes :
    LET r == AddAsYamlFile(cfg, store, o, filePath, outcome) IN
    /\ store' = r.store
    /\ written' = IF r.err = NoErr
                    THEN StorePut(written, filePath,
                                  [kind |-> "yaml", file |-> <<>>, value |-> o])
                    ELSE IF Len(r.trace) > 1 THEN StoreRemove(written, filePath)
                    ELSE written
    /\ last' = Invocation(c, "AddAsYamlFile", filePath, <<>>, o, outcome, r.trace, r.err,
                          <<>>, <<>>, FALSE)
    /\ UNCHANGED <<cfg, ctor, input>>

InvokeGetFromYamlFile(c, filePath) ==
  \E outcome \in GetOutcomes(store, ObjectKey(cfg, filePath)) :
    LET r == GetFromYamlFile(cfg, store, InitialOut, filePath, outcome) IN
    /\ last' = Invocation(c, "GetFromYamlFile", filePath, <<>>, <<>>, outcome, r.trace, r.err,
                          r.bytes, r.o, r.complete)
    /\ UNCHANGED <<cfg, ctor, store, written, input>>

-----------------------------------------------------------------------------
(* The adapter under concurrent callers *)

Callers == {"c1", "c2"}

Abc == <<"a", "b", "c">>

Pipelines == <<"p", "i", "p", "e", "l", "i", "n", "e", "s">>

\* "abc123;chunk-signature=def456"
Artifact ==
  <<"a", "b", "c", "1", "2", "3">> \o ChunkSignatureLiteral \o <<"d", "e", "f", "4", "5", "6">>

\* ten bytes that are no YAML document: an unclosed flow mapping
TenBytes == <<"{", "a", "b", "c", "d", "e", "f", "g", "h", "i">>

BucketNames == {"mlpipeline"}

BaseFolders == {<<>>, Pipelines}

PipelineIds == {Abc}

\* a bare path, and a key obtained from GetPipelineKey
FilePaths == {Abc, Pipelines \o <<"/">> \o Abc}

\* empty, ten bytes that are not YAML, and the artifact alone
Blobs == {<<>>, TenBytes, Artifact}

\* a string whose YAML text holds the artifact, and a value that cannot be marshalled
Values == {<<"k", " ">> \o Artifact, Unmarshalable}

InitWith(bucketNames, baseFolders, contents, inputs) ==
  /\ ctor \in [minioClient : {"client"}, bucketName : bucketNames,
               baseFolder : baseFolders, disableMultipart : BOOLEAN]
  /\ cfg = NewMinioObjectStore(ctor.minioClient, ctor.bucketName, ctor.baseFolder,
                               ctor.disableMultipart)
  /\ store \in contents
  /\ input \in inputs
  /\ written = <<>>
  /\ last = NoInvocation

EmptyBucket == {<<>>}

NoInput == {<<>>}

Init == InitWith(BucketNames, BaseFolders, EmptyBucket, NoInput)

Next ==
  \E c \in Callers :
    \/ \E id \in PipelineIds : InvokeGetPipelineKey(c, id)
    \/ \E file \in Blobs, filePath \in FilePaths : InvokeAddFile(c, file, filePath)
    \/ \E filePath \in FilePaths : InvokeDeleteFile(c, filePath)
    \/ \E filePath \in FilePaths : InvokeGetFile(c, filePath)
    \/ \E o \in Values, filePath \in FilePaths : InvokeAddAsYamlFile(c, o, filePath)
    \/ \E filePath \in FilePaths : InvokeGetFromYamlFile(c, filePath)

Spec == Init /\ [][Next]_vars

-----------------------------------------------------------------------------
(* AddFile of the blob the caller holds, GetFile and DeleteFile on one path, *)
(* for every blob of at most MaxTokens tokens                               *)

BlobTokens == {<<"z">>, <<" ">>, <<";">>, ChunkSignatureLiteral}

TokenBlobs == {Flatten(ts) : ts \in SeqsUpTo(BlobTokens, MaxTokens)}

InitRoundTrip == InitWith(BucketNames, {<<>>}, EmptyBucket, TokenBlobs)

NextRoundTrip ==
  \/ InvokeAddFile("c1", input, Abc)
  \/ InvokeGetFile("c1", Abc)
  \/ InvokeDeleteFile("c1", Abc)

SpecRoundTrip == InitRoundTrip /\ [][NextRoundTrip]_vars

-----------------------------------------------------------------------------
(* GetFile on raw stored bytes x ++ "abc123;chunk-signature=def456" ++ y *)

\* a letter, a digit and an underscore, a blank, and the literal of the pattern
AffixTokens == {<<"z">>, <<"7", "_">>, <<" ">>, ChunkSignatureLiteral}

Affixes == {Flatten(ts) : ts \in SeqsUpTo(AffixTokens, MaxAffix)}

RawBuckets == {[k \in {Abc} |-> x \o Artifact \o y] : x \in Affixes, y \in Affixes}

InitStrip == InitWith(BucketNames, {<<>>}, RawBuckets, NoInput)

NextStrip == InvokeGetFile("c1", Abc)

SpecStrip == InitStrip /\ [][NextStrip]_vars

-----------------------------------------------------------------------------
(* GetPipelineKey over every base folder and id of at most MaxPathLen characters *)

PathChars == {"a", "/", "."}

PathStrings == SeqsUpTo(PathChars, MaxPathLen) \cup {Pipelines, Abc}

\* an empty bucket, and one that holds an object
JoinBuckets == {<<>>, [k \in {Abc} |-> TenBytes]}

InitJoin == InitWith(BucketNames, PathStrings, JoinBuckets, PathStrings)

NextJoin == \E c \in Callers : InvokeGetPipelineKey(c, input)

SpecJoin == InitJoin /\ [][NextJoin]_vars

-----------------------------------------------------------------------------
(* Properties *)

ClientCalls(inv) == SelectSeq(inv.trace, IsClientCall)

\* s holds a substring that `\w+;chunk-signature=\w+` matches: the literal
\* with a word character right before it and right after it
ContainsMatch(s) ==
  \E i \in 2..Len(s) :
    /\ LiteralAt(s, i)
    /\ IsWord(s[i - 1])
    /\ i + Len(ChunkSignatureLiteral) <= Len(s)
    /\ IsWord(s[i + Len(ChunkSignatureLiteral)])

\* C1: AddFile(b, p) then GetFile(p), with no write or delete of p in between
\* and a client that returned the stored bytes in full, returns exactly b when
\* disableMultipart is false, or when it is true and b holds no match of the
\* chunk-signature pattern.
C1_RoundTrip ==
  (/\ last.op = "GetFile"
   /\ last.prior.kind = "file"
   /\ last.complete
   /\ (~ctor.disableMultipart \/ ~ContainsMatch(last.prior.file)))
  => (last.err = NoErr /\ last.out = last.prior.file)

\* a blob that holds the literal but no match came back unchanged under disableMultipart
C1_Witness ==
  /\ last.op = "GetFile"
  /\ last.prior.kind = "file"
  /\ last.complete
  /\ ctor.disableMultipart
  /\ \E i \in 1..Len(last.prior.file) : LiteralAt(last.prior.file, i)
  /\ ~ContainsMatch(last.prior.file)
  /\ last.out = last.prior.file

\* C2: AddAsYamlFile(v, p) then GetFromYamlFile(outRef, p), with no write or
\* delete of p in between and the stored bytes returned in full, succeeds and
\* leaves outRef equal to v, for either setting of disableMultipart.
C2_YamlRoundTrip ==
  (/\ last.op = "GetFromYamlFile"
   /\ last.prior.kind = "yaml"
   /\ last.complete)
  => (last.err = NoErr /\ last.outRef = last.prior.value)

ArtifactAt(s, i) ==
  /\ i + Len(Artifact) - 1 <= Len(s)
  /\ SubSeq(s, i, i + Len(Artifact) - 1) = Artifact

\* x ends with a word character followed by the literal, which the artifact's
\* first word characters complete to a match
EndsWithOpenSignature(x) ==
  /\ Len(x) > Len(ChunkSignatureLiteral)
  /\ LiteralAt(x, Len(x) - Len(ChunkSignatureLiteral) + 1)
  /\ IsWord(x[Len(x) - Len(ChunkSignatureLiteral)])

\* no word character of x or y touches the artifact
Detached(x, y) ==
  /\ x = <<>> \/ ~IsWord(x[Len(x)])
  /\ y = <<>> \/ ~IsWord(y[1])
  /\ ~EndsWithOpenSignature(x)

\* GetFile with disableMultipart returned x ++ y for every split of the raw
\* bytes as x ++ artifact ++ y that satisfies cond
StripsArtifact(cond(_, _)) ==
  (/\ last.op = "GetFile"
   /\ ctor.disableMultipart
   /\ last.complete)
  => \A i \in 1..Len(last.raw) :
       ArtifactAt(last.raw, i) =>
         LET x == SubSeq(last.raw, 1, i - 1)
             y == SubSeq(last.raw, i + Len(Artifact), Len(last.raw))
         IN (~ContainsMatch(x) /\ ~ContainsMatch(y) /\ cond(x, y)) => last.out = x \o y

Anywhere(x, y) == TRUE

\* C3 as stated: with disableMultipart, raw bytes x ++ "abc123;chunk-signature=def456" ++ y,
\* for any x and y without a match, come back as x ++ y, also when x or y
\* touches the artifact with a letter, a digit or an underscore.
C3_StripAnywhere == StripsArtifact(Anywhere)

\* C3 amended: with disableMultipart, raw bytes x ++ "abc123;chunk-signature=def456" ++ y
\* come back as x ++ y when x and y hold no match, x does not end and y does
\* not start with a word character, and x does not end with a word character
\* followed by ";chunk-signature=".
C3_StripDetached == StripsArtifact(Detached)

\* the artifact between a non-empty x and a non-empty y was removed and both were kept
C3_Witness ==
  /\ last.op = "GetFile"
  /\ ctor.disableMultipart
  /\ last.complete
  /\ \E i \in 2..Len(last.raw) :
       /\ ArtifactAt(last.raw, i)
       /\ i + Len(Artifact) <= Len(last.raw)
       /\ LET x == SubSeq(last.raw, 1, i - 1)
              y == SubSeq(last.raw, i + Len(Artifact), Len(last.raw))
          IN ~ContainsMatch(x) /\ ~ContainsMatch(y) /\ Detached(x, y) /\ last.out = x \o y

StorageOps == {"AddFile", "GetFile", "DeleteFile"}

ClientFailed == last.outcome.get = "fail"

Failed == [get |-> "fail", read |-> 0]

\* the error the failing client call returned
ClientError == IF last.op = "GetFile" /\ ~last.existed THEN "NoSuchKey" ELSE "Unavailable"

ClientOpOf(op) ==
  CASE op = "AddFile" -> "PutObject"
    [] op = "GetFile" -> "GetObject"
    [] op = "DeleteFile" -> "DeleteObject"

\* the kind of the error a storage method returns when its client call fails
KindOnClientFailure(op) ==
  CASE op = "AddFile" -> AddFile(cfg, store, <<>>, last.filePath, Failed).err.kind
    [] op = "GetFile" -> GetFile(cfg, store, last.filePath, Failed).err.kind
    [] op = "DeleteFile" -> DeleteFile(cfg, store, last.filePath, Failed).err.kind

\* the method returned an error with the client's error as its cause, after one client call
PropagatesClientError ==
  /\ last.err # NoErr
  /\ last.err.cause = ClientError
  /\ last.err.path = last.filePath
  /\ Len(last.trace) = 1
  /\ last.trace[1].op = ClientOpOf(last.op)

\* C4 as stated: when the client's put, get or delete fails, AddFile, GetFile
\* or DeleteFile returns an error of its own kind, distinguishable from the
\* kinds of the other two, that carries the cause, and issues no further call.
C4_DistinctKinds ==
  (last.op \in StorageOps /\ ClientFailed)
  => /\ PropagatesClientError
     /\ \A other \in StorageOps \ {last.op} : last.err.kind # KindOnClientFailure(other)

FailureMessage(op) ==
  CASE op = "AddFile" -> "Failed to store file"
    [] op = "GetFile" -> "Failed to get file"
    [] op = "DeleteFile" -> "Failed to delete file"

\* C4 amended: when the client's put, get or delete fails, AddFile, GetFile or
\* DeleteFile returns an InternalServerError (one kind for all three) whose
\* message names the operation and the path, that carries the cause, and the
\* adapter issues no further client call.
C4_ErrorPropagation ==
  (last.op \in StorageOps /\ ClientFailed)
  => /\ PropagatesClientError
     /\ last.err.kind = "InternalServerError"
     /\ last.err.message = FailureMessage(last.op)
     /\ \A other \in StorageOps \ {last.op} : last.err.message # FailureMessage(other)

\* a get of an object that exists failed and GetFile returned the wrapped error
C4_Witness ==
  /\ last.op = "GetFile"
  /\ ClientFailed
  /\ last.existed
  /\ last.err.message = "Failed to get file"
  /\ last.err.cause = "Unavailable"

\* C5: GetFile never returns success with bytes that are an incomplete copy of
\* the stored object: when the get succeeds and reading the stream fails
\* part-way, GetFile returns an error.
C5_ReadFully ==
  (last.op = "GetFile" /\ last.existed /\ last.err = NoErr) => last.complete

\* C6: AddFile issues exactly one put, to the configured bucket, with the
\* content type application/octet-stream and a declared size that is the
\* blob's length when disableMultipart is true and -1 when it is false.
C6_DeclaredSize ==
  last.op = "AddFile"
  => /\ Len(ClientCalls(last)) = 1
     /\ LET put == ClientCalls(last)[1] IN
        /\ put.op = "PutObject"
        /\ put.bucket = ctor.bucketName
        /\ put.data = last.file
        /\ put.contentType = "application/octet-stream"
        /\ put.size = IF ctor.disableMultipart THEN Len(last.file) ELSE -1

\* a ten-byte blob was put with declared size 10
C6_Witness ==
  /\ last.op = "AddFile"
  /\ ctor.disableMultipart
  /\ Len(last.file) = 10
  /\ Len(last.trace) = 1
  /\ last.trace[1].size = 10

Ops(inv) == [i \in 1..Len(inv.trace) |-> inv.trace[i].op]

\* C7: a marshal failure makes AddAsYamlFile return the marshal error with no
\* client call and the bucket as it was; malformed YAML makes GetFromYamlFile
\* return the unmarshal error after exactly one successful get; a failed get
\* makes it return the read error without unmarshalling, outValue untouched.
C7_CodecOrder ==
  /\ (last.op = "AddAsYamlFile" /\ last.value = Unmarshalable)
     => /\ last.err.message = "Failed to marshal file"
        /\ last.err.cause = "unsupported type"
        /\ Ops(last) = <<"Marshal">>
        /\ Has(store, last.filePath) = last.existed
        /\ Stored(store, last.filePath) = last.raw
  /\ (last.op = "GetFromYamlFile" /\ last.outcome.get = "ok" /\ "{" \in Chars(last.out))
     => /\ last.err.message = "Failed to unmarshal file"
        /\ last.err.path = last.filePath
  /\ (last.op = "GetFromYamlFile" /\ last.err.message = "Failed to unmarshal file")
     => /\ last.outcome.get = "ok"
        /\ Ops(last) = <<"GetObject", "Unmarshal">>
  /\ (last.op = "GetFromYamlFile" /\ last.outcome.get = "fail")
     => /\ last.err.message = "Failed to get file"
        /\ last.err.context = <<"Failed to read from a yaml file">>
        /\ Ops(last) = <<"GetObject">>
        /\ last.outRef = InitialOut

\* bytes that are not YAML were fetched in full and then failed to unmarshal
C7_Witness ==
  /\ last.op = "GetFromYamlFile"
  /\ last.complete
  /\ last.err.message = "Failed to unmarshal file"
  /\ Ops(last) = <<"GetObject", "Unmarshal">>

\* C8 as stated: with a non-empty base folder, every key handed to the
\* client's put, get or delete is <baseFolder>/<the path the caller supplied>.
C8_UnderBaseFolder ==
  \A i \in 1..Len(last.trace) :
    (IsClientCall(last.trace[i]) /\ ctor.baseFolder # <<>>)
    => last.trace[i].key = ctor.baseFolder \o <<"/">> \o last.filePath

\* C8 amended: every key handed to the client's put, get or delete is exactly
\* the path the caller supplied, in the configured bucket; the base folder is
\* applied by GetPipelineKey alone.
C8_KeyIsFilePath ==
  \A i \in 1..Len(last.trace) :
    IsClientCall(last.trace[i])
    => /\ last.trace[i].key = last.filePath
       /\ last.trace[i].bucket = ctor.bucketName

\* with base folder "pipelines", a put of path "abc" went to key "abc"
C8_Witness ==
  /\ last.op = "AddFile"
  /\ ctor.baseFolder = Pipelines
  /\ last.filePath = Abc
  /\ Len(last.trace) = 1
  /\ last.trace[1].key = Abc

IsName(c) == c # <<>> /\ c # <<".">>

\* the components of p that name something
Names(p) == SelectSeq(Split(p), IsName)

NoDotDot(p) == \A i \in 1..Len(Split(p)) : Split(p)[i] # DotDot

Rooted(p) == p # <<>> /\ p[1] = "/"

\* without "/" and ".", and not empty
Plain(p) == p # <<>> /\ Chars(p) \cap {"/", "."} = {}

\* a path in path.Clean's normal form
Normalized(p) ==
  /\ p # <<>>
  /\ \A i \in 1..(Len(p) - 1) : ~(p[i] = "/" /\ p[i + 1] = "/")
  /\ p = <<"/">> \/ p[Len(p)] # "/"
  /\ p = <<".">> \/ \A i \in 1..Len(Split(p)) : Split(p)[i] # <<".">>
  /\ \A i \in 1..Len(Split(p)) :
       Split(p)[i] = DotDot => (~Rooted(p) /\ (i = 1 \/ Split(p)[i - 1] = DotDot))

\* the key GetPipelineKey returned is the base folder joined with the id
JoinsBaseAndId ==
  last.op = "GetPipelineKey"
  => LET base == ctor.baseFolder
         id == last.filePath
         key == last.out
     IN /\ last.trace = <<>>
        /\ last.err = NoErr
        /\ (base = <<>> /\ id = <<>>) => key = <<>>
        /\ (base = Pipelines /\ id = Abc) => key = Pipelines \o <<"/">> \o Abc
        /\ (base = <<>> /\ id = Abc) => key = Abc
        /\ (Plain(base) /\ Plain(id)) => key = base \o <<"/">> \o id
        /\ (base = <<>> /\ Plain(id)) => key = id
        /\ (Plain(base) /\ id = <<>>) => key = base
        /\ (base # <<>> \/ id # <<>>) => Normalized(key)
        /\ (NoDotDot(base) /\ NoDotDot(id) /\ (base # <<>> \/ id # <<>>))
           => /\ Names(key) = Names(base) \o Names(id)
              /\ Rooted(key) = Rooted(IF base # <<>> THEN base ELSE id)

\* a step that completes GetPipelineKey leaves the adapter and the bucket as they were
GetPipelineKeyIsPure ==
  (last'.op = "GetPipelineKey" /\ last' # last)
  => UNCHANGED <<cfg, ctor, store, written>>

\* C9: GetPipelineKey(id) is the base folder joined with id by path-join rules
\* ("pipelines" and "abc" give "pipelines/abc", an empty base folder and "abc"
\* give "abc", empty elements are dropped, the result is normalized); it makes
\* no client call and changes no state.
C9_GetPipelineKey == []JoinsBaseAndId /\ [][GetPipelineKeyIsPure]_vars

\* a base folder and an id with separators to normalize were joined, next to a bucket that holds an object
C9_Witness ==
  /\ last.op = "GetPipelineKey"
  /\ ctor.baseFolder = <<"a", "/", "/">>
  /\ last.filePath = <<".", "/", "a">>
  /\ last.out = <<"a", "/", "a">>
  /\ store # <<>>

\* the client calls a method issues, from its own arguments and the constructor's alone
CallsOf(inv) ==
  LET put(data) ==
        ClientCall("PutObject", ctor.bucketName, inv.filePath, data,
                   IF ctor.disableMultipart THEN Len(data) ELSE -1,
                   "application/octet-stream")
  IN CASE inv.op = "AddFile" -> <<put(inv.file)>>
       [] inv.op = "AddAsYamlFile" ->
            IF inv.value = Unmarshalable THEN <<>> ELSE <<put(inv.value \o <<"\n">>)>>
       [] inv.op = "DeleteFile" ->
            <<ClientCall("DeleteObject", ctor.bucketName, inv.filePath, <<>>, 0, "")>>
       [] inv.op \in {"GetFile", "GetFromYamlFile"} ->
            <<ClientCall("GetObject", ctor.bucketName, inv.filePath, <<>>, 0, "")>>
       [] OTHER -> <<>>

\* C10: after any interleaving of the six methods by concurrent callers,
\* failed or not, the adapter's configuration is what the constructor was
\* given, and the client call of each method depends only on its own
\* arguments and that configuration.
C10_Stateless ==
  /\ cfg = NewMinioObjectStore(ctor.minioClient, ctor.bucketName, ctor.baseFolder,
                               ctor.disableMultipart)
  /\ ClientCalls(last) = CallsOf(last)

\* the second caller's put failed on a path the adapter had written before
C10_Witness ==
  /\ last.caller = "c2"
  /\ last.op = "AddFile"
  /\ last.err # NoErr
  /\ last.prior.kind # "none"
  /\ cfg = ctor

====
